---- MODULE Spec2Model ----
(***************************************************************************)
(* Model of the request-execution core of the go_shopify client:          *)
(* Client.doGetHeaders (client.go) together with CheckResponseError and   *)
(* wrapSpecificError (the error normalizer), ResponseError.Error and the  *)
(* authentication headers of Client.NewRequest.                           *)
(*                                                                         *)
(* Strings that the code parses or builds (header values, messages) are   *)
(* sequences of one-character strings, so that strings.Split,             *)
(* strconv.Atoi, strconv.ParseFloat and strings.Join are computed.        *)
(* A float64 is held as a whole number of tenths.                         *)
(***************************************************************************)
EXTENDS Integers, Sequences, FiniteSets, TLC

\* ------------------------------------------------------------------------
\* Bounds of the model
\* ------------------------------------------------------------------------
MaxRetries == 3
MaxCalls == 2
MaxErrors == 2

\* ------------------------------------------------------------------------
\* Program constants
\* ------------------------------------------------------------------------
defaultApiVersion == "stable"
StatusOK == 200
StatusMultipleChoices == 300
StatusNotAcceptable == 406
StatusTooManyRequests == 429
StatusServiceUnavailable == 503

\* ------------------------------------------------------------------------
\* Strings and number parsing
\* ------------------------------------------------------------------------
Digits == {"0", "1", "2", "3", "4", "5", "6", "7", "8", "9"}

DigitVal(c) ==
    CASE c = "0" -> 0 [] c = "1" -> 1 [] c = "2" -> 2 [] c = "3" -> 3
      [] c = "4" -> 4 [] c = "5" -> 5 [] c = "6" -> 6 [] c = "7" -> 7
      [] c = "8" -> 8 [] c = "9" -> 9

AllDigits(s) == \A i \in 1..Len(s) : s[i] \in Digits

RECURSIVE DecimalValue(_)
DecimalValue(s) ==
    IF s = <<>> THEN 0
    ELSE 10 * DecimalValue(SubSeq(s, 1, Len(s) - 1)) + DigitVal(s[Len(s)])

\* strings.Split(s, sep) for a one-character separator: always at least one
\* part, the empty string splits into one empty part.
RECURSIVE Split(_, _)
Split(s, sep) ==
    IF \E i \in 1..Len(s) : s[i] = sep
    THEN LET i == CHOOSE k \in 1..Len(s) :
                      s[k] = sep /\ \A j \in 1..(k - 1) : s[j] # sep
         IN  <<SubSeq(s, 1, i - 1)>> \o Split(SubSeq(s, i + 1, Len(s)), sep)
    ELSE <<s>>

\* strconv.Atoi: optional sign, then one or more decimal digits; on a syntax
\* error the value is 0 and the error is set.
Unsigned(s) == IF s # <<>> /\ s[1] \in {"+", "-"} THEN Tail(s) ELSE s

AtoiOk(s) == Unsigned(s) # <<>> /\ AllDigits(Unsigned(s))

Atoi(s) ==
    IF ~AtoiOk(s) THEN 0
    ELSE IF s[1] = "-" THEN 0 - DecimalValue(Unsigned(s))
    ELSE DecimalValue(Unsigned(s))

\* strconv.ParseFloat(s, 64) on plain decimal notation: optional sign, digits,
\* optional "." and digits, at least one digit in all. The value is held in
\* tenths (fraction digits after the first are dropped); 0 on a syntax error.
IntPart(s) == Split(Unsigned(s), ".")[1]

FracPart(s) == IF Len(Split(Unsigned(s), ".")) = 2 THEN Split(Unsigned(s), ".")[2] ELSE <<>>

ParseFloatOk(s) ==
    /\ Len(Split(Unsigned(s), ".")) \in {1, 2}
    /\ AllDigits(IntPart(s)) /\ AllDigits(FracPart(s))
    /\ Len(IntPart(s)) + Len(FracPart(s)) > 0

ParseFloat(s) ==
    IF ~ParseFloatOk(s) THEN 0
    ELSE LET mag == 10 * DecimalValue(IntPart(s))
                    + (IF FracPart(s) = <<>> THEN 0 ELSE DigitVal(FracPart(s)[1]))
         IN  IF s[1] = "-" THEN 0 - mag ELSE mag

\* Variant: rounding up.
FloatToIntCeiling(f) == (f + 9) \div 10

\* int(f) of a float64 held in tenths: truncation toward zero.
FloatToInt(f) == IF f >= 0 THEN f \div 10 ELSE 0 - ((0 - f) \div 10)

\* strings.Join(elems, sep)
RECURSIVE Join(_, _)
Join(elems, sep) ==
    IF elems = <<>> THEN <<>>
    ELSE IF Len(elems) = 1 THEN elems[1]
    ELSE elems[1] \o sep \o Join(Tail(elems), sep)

\* The characters of the strings that are compared, in the order of their
\* bytes.
Bytes ==
    <<" ", ",", "-", ".", "/", "0", "1", "2", "3", "4", "5", "6", "7", "8", "9", ":",
      "<", ">", "A", "E", "N", "O", "U", "a", "b", "c", "d", "e", "h", "i", "k", "l",
      "n", "o", "p", "r", "s", "t", "v", "w", "x", "z">>

Byte(ch) == CHOOSE i \in 1..Len(Bytes) : Bytes[i] = ch

\* a < b on Go strings: bytewise, a proper prefix is less.
RECURSIVE StringLess(_, _)
StringLess(a, b) ==
    IF b = <<>> THEN FALSE
    ELSE IF a = <<>> THEN TRUE
    ELSE IF Head(a) = Head(b) THEN StringLess(Tail(a), Tail(b))
    ELSE Byte(Head(a)) < Byte(Head(b))

\* x put into the sorted list strs at its place.
RECURSIVE InsertSorted(_, _)
InsertSorted(x, strs) ==
    IF strs = <<>> THEN <<x>>
    ELSE IF StringLess(Head(strs), x) THEN <<Head(strs)>> \o InsertSorted(x, Tail(strs))
    ELSE <<x>> \o strs

\* Variant: the list left in the order it has.
SortStringsKeepingOrder(strs) == strs

\* sort.Strings(strs): the list in increasing order.
RECURSIVE SortStrings(_)
SortStrings(strs) ==
    IF strs = <<>> THEN <<>> ELSE InsertSorted(Head(strs), SortStrings(Tail(strs)))

CommaSpace == <<",", " ">>
UnknownError == <<"U", "n", "k", "n", "o", "w", "n", " ", "E", "r", "r", "o", "r">>
ColonSpace == <<":", " ">>

\* http.StatusText(406)
StatusTextNotAcceptable ==
    <<"N", "o", "t", " ", "A", "c", "c", "e", "p", "t", "a", "b", "l", "e">>

\* ------------------------------------------------------------------------
\* JSON values, response bodies, responses
\* ------------------------------------------------------------------------
\* The value of the "errors" field after json.Unmarshal into interface{}:
\* nil, string, []interface{} or map[string]interface{} (held as a sequence
\* of entries; the map forgets their order).
JNull == [t |-> "null", s |-> <<>>, a |-> <<>>, o |-> <<>>]
JString(str) == [t |-> "string", s |-> str, a |-> <<>>, o |-> <<>>]
JArray(elems) == [t |-> "array", s |-> <<>>, a |-> elems, o |-> <<>>]
JObject(entries) == [t |-> "object", s |-> <<>>, a |-> <<>>, o |-> entries]
\* float64 and bool: values of other kinds, here by their JSON text.
JNumber(digits) == [t |-> "number", s |-> digits, a |-> <<>>, o |-> <<>>]
JBool(word) == [t |-> "bool", s |-> word, a |-> <<>>, o |-> <<>>]
Entry(key, val) == [k |-> key, v |-> val]

\* A top-level member of the body read by the typed result target.
Absent == [t |-> "absent", n |-> 0, s |-> <<>>]
Number(i) == [t |-> "number", n |-> i, s |-> <<>>]
Text(str) == [t |-> "string", n |-> 0, s |-> str]

EmptyBody ==
    [kind |-> "empty", raw |-> <<>>, why |-> <<>>, error |-> <<>>, errors |-> JNull,
     count |-> Absent, name |-> Absent]
\* A non-empty body that is not JSON: its bytes and the parser's description.
MalformedBody(bytes, msg) ==
    [kind |-> "malformed", raw |-> bytes, why |-> msg, error |-> <<>>, errors |-> JNull,
     count |-> Absent, name |-> Absent]
\* A body whose Read fails with the error msg before any byte is read.
UnreadableBody(msg) ==
    [kind |-> "unreadable", raw |-> <<>>, why |-> msg, error |-> <<>>, errors |-> JNull,
     count |-> Absent, name |-> Absent]
\* A non-empty body that is a JSON object whose "error" member is not a string,
\* which json.Unmarshal cannot store in shopifyError: its bytes and the
\* description of the UnmarshalTypeError.
UnfitBody(bytes, msg) ==
    [kind |-> "unfit", raw |-> bytes, why |-> msg, error |-> <<>>, errors |-> JNull,
     count |-> Absent, name |-> Absent]
ErrorBody(err, errs) ==
    [kind |-> "json", raw |-> <<>>, why |-> <<>>, error |-> err, errors |-> errs,
     count |-> Absent, name |-> Absent]
DataBody(cnt, nm) ==
    [kind |-> "json", raw |-> <<>>, why |-> <<>>, error |-> <<>>, errors |-> JNull,
     count |-> cnt, name |-> nm]

\* Header.Get returns "" for a header that is absent.
Headers(limit, retryAfter, version) ==
    [CallLimit |-> limit, RetryAfter |-> retryAfter, ApiVersion |-> version]
NoHeaders == Headers(<<>>, <<>>, "")

Response(status, body, header) == [StatusCode |-> status, Body |-> body, Header |-> header]
NoResponse == Response(0, EmptyBody, NoHeaders)

\* ------------------------------------------------------------------------
\* Error values
\* ------------------------------------------------------------------------
NilError ==
    [kind |-> "nil", Status |-> 0, Message |-> <<>>, Errors |-> <<>>, RetryAfter |-> 0,
     Body |-> <<>>]
ResponseError(status, msg, errs) ==
    [kind |-> "ResponseError", Status |-> status, Message |-> msg, Errors |-> errs,
     RetryAfter |-> 0, Body |-> <<>>]
RateLimitError(err, retryAfter) ==
    [kind |-> "RateLimitError", Status |-> err.Status, Message |-> err.Message,
     Errors |-> err.Errors, RetryAfter |-> retryAfter, Body |-> <<>>]
\* Variant: the decoding error without the body bytes.
ResponseDecodingErrorWithoutBody(bytes, msg, status) ==
    [kind |-> "ResponseDecodingError", Status |-> status, Message |-> msg, Errors |-> <<>>,
     RetryAfter |-> 0, Body |-> <<>>]

ResponseDecodingError(bytes, msg, status) ==
    [kind |-> "ResponseDecodingError", Status |-> status, Message |-> msg, Errors |-> <<>>,
     RetryAfter |-> 0, Body |-> bytes]
\* The error of a failed Read of the response body.
ReadError(msg) ==
    [kind |-> "read", Status |-> 0, Message |-> msg, Errors |-> <<>>, RetryAfter |-> 0,
     Body |-> <<>>]
\* Not an error value: the goroutine panicked instead of returning.
Panic ==
    [kind |-> "panic", Status |-> 0, Message |-> <<>>, Errors |-> <<>>, RetryAfter |-> 0,
     Body |-> <<>>]
\* An error of the HTTP client (connection failure, timeout).
TransportError(msg) ==
    [kind |-> "transport", Status |-> 0, Message |-> msg, Errors |-> <<>>, RetryAfter |-> 0,
     Body |-> <<>>]
\* An error of json.Decoder.Decode on the body of a successful response.
JsonError(msg) ==
    [kind |-> "json", Status |-> 0, Message |-> msg, Errors |-> <<>>, RetryAfter |-> 0,
     Body |-> <<>>]

\* ResponseError.Error(): the string, and the receiver's Errors afterwards (the
\* receiver is a copy, its Errors slice shares the caller's array, which
\* sort.Strings reorders).
ErrorString(e) ==
    IF e.Message # <<>> THEN [s |-> e.Message, Errors |-> e.Errors]
    ELSE IF Join(SortStrings(e.Errors), CommaSpace) # <<>>
    THEN [s |-> Join(SortStrings(e.Errors), CommaSpace), Errors |-> SortStrings(e.Errors)]
    ELSE [s |-> UnknownError, Errors |-> SortStrings(e.Errors)]

\* ------------------------------------------------------------------------
\* The error normalizer
\* ------------------------------------------------------------------------
wrapSpecificError(r, err) ==
    IF err.Status = StatusTooManyRequests
    THEN RateLimitError(err, FloatToInt(ParseFloat(r.Header.RetryAfter)))
    ELSE IF err.Status = StatusNotAcceptable
    THEN ResponseError(err.Status, StatusTextNotAcceptable, err.Errors)
    ELSE err

\* One sub-error "<key>: <element>"; the primary message takes it when unset.
AddTopic(acc, key, elem) ==
    [acc EXCEPT !.Message = IF @ = <<>> THEN key \o ColonSpace \o elem ELSE @,
                !.Errors = Append(@, key \o ColonSpace \o elem)]

RECURSIVE AddTopics(_, _, _)
AddTopics(acc, key, elems) ==
    IF elems = <<>> THEN acc
    ELSE AddTopics(AddTopic(acc, key, Head(elems)), key, Tail(elems))

\* The body of the range over the map, for one key. reflect.TypeOf of a nil
\* value is nil, and Kind() on it panics: the range ends there.
FlattenEntry(acc, e) ==
    IF acc.panicked THEN acc
    ELSE IF e.v.t = "null" THEN [acc EXCEPT !.panicked = TRUE]
    ELSE IF e.v.t = "array" THEN AddTopics(acc, e.k, e.v.a)
    ELSE IF e.v.t = "string" THEN AddTopic(acc, e.k, e.v.s)
    ELSE acc

\* The range over the map, visiting the entries in the order ord.
RECURSIVE FlattenMap(_, _, _)
FlattenMap(acc, entries, ord) ==
    IF ord = <<>> THEN acc
    ELSE FlattenMap(FlattenEntry(acc, entries[Head(ord)]), entries, Tail(ord))

\* The orders in which a range over a map of n keys can visit them.
IterationOrders(n) ==
    {ord \in [1..n -> 1..n] : \A i, j \in 1..n : i # j => ord[i] # ord[j]}

\* Variant: only 200 counts as success.
IsSuccessOnlyOK(status) == status = StatusOK

IsSuccess(status) == StatusOK <= status /\ status < StatusMultipleChoices

\* ioutil.ReadAll: the bytes as the body value they form, and the error.
ReadAll(body) ==
    IF body.kind = "unreadable"
    THEN [b |-> EmptyBody, err |-> ReadError(body.why)]
    ELSE [b |-> body, err |-> NilError]

\* ord is the order in which the map of an "errors" object is iterated.
CheckResponseError(r, ord) ==
    IF IsSuccess(r.StatusCode) THEN NilError
    ELSE IF ReadAll(r.Body).err # NilError THEN ReadAll(r.Body).err
    ELSE IF r.Body.kind \in {"malformed", "unfit"}
    THEN ResponseDecodingError(r.Body.raw, r.Body.why, r.StatusCode)
    ELSE LET msg == r.Body.error
             errs == r.Body.errors
             flat == FlattenMap([Message |-> msg, Errors |-> <<>>, panicked |-> FALSE],
                                errs.o, ord)
         IN  IF errs.t = "null"
             THEN wrapSpecificError(r, ResponseError(r.StatusCode, msg, <<>>))
             ELSE IF errs.t = "string"
             THEN wrapSpecificError(r, ResponseError(r.StatusCode, errs.s, <<>>))
             ELSE IF errs.t = "array"
             THEN wrapSpecificError(r,
                      ResponseError(r.StatusCode, Join(errs.a, CommaSpace), errs.a))
             ELSE IF errs.t = "object"
             THEN IF flat.panicked THEN Panic
                  ELSE wrapSpecificError(r,
                           ResponseError(r.StatusCode, flat.Message, flat.Errors))
             ELSE wrapSpecificError(r, ResponseError(r.StatusCode, msg, <<>>))

\* ------------------------------------------------------------------------
\* Inputs: the responses and transport failures the server side can produce
\* ------------------------------------------------------------------------
Malformed == MalformedBody(<<"<", "h", ">">>, <<"i", "n", "v">>)
BadRequest == ErrorBody(<<"b", "a", "d">>, JNull)
Unreadable == UnreadableBody(<<"r", "s", "t">>)
NumberAsError == UnfitBody(<<"e", ":", "4", "2">>, <<"t", "y", "p", "e">>)
Counted == DataBody(Number(1), Text(<<"a">>))
Mistyped == DataBody(Text(<<"x">>), Text(<<"a">>))

NoSlash == Headers(<<"7">>, <<"x">>, "")
Limits34 == Headers(<<"3", "/", "4">>, <<"2">>, "2023-01")
LimitsX4 == Headers(<<"x", "/", "4">>, <<"2", ".", "5">>, "2023-04")
Negative == Headers(<<>>, <<"-", "0", ".", "5">>, "")

\* Error bodies whose "errors" field is a string, an array or an object.
ShapedErrors ==
    { JString(<<"n", "o">>),
      JArray(<<<<"n", "o", "t">>, <<"b", "a", "d">>>>),
      JObject(<<Entry(<<"o">>, JArray(<<<<"w">>>>)), Entry(<<"c">>, JString(<<"z">>))>>) }

Responses ==
    {Response(StatusOK, Counted, h) : h \in {NoHeaders, NoSlash, Limits34, LimitsX4}}
    \cup {Response(StatusOK, b, Limits34) : b \in {EmptyBody, Malformed, BadRequest, Mistyped}}
    \cup {Response(StatusTooManyRequests, b, h) :
              b \in {EmptyBody, Malformed, BadRequest}, h \in {NoHeaders, Limits34, LimitsX4}}
    \cup {Response(st, b, h) :
              st \in {404, StatusServiceUnavailable},
              b \in {EmptyBody, Malformed, BadRequest}, h \in {NoHeaders, Limits34}}
    \cup {Response(400, ErrorBody(<<>>, e), NoHeaders) : e \in ShapedErrors}
    \cup {Response(StatusNotAcceptable, BadRequest, NoHeaders)}
    \cup {Response(st, Unreadable, NoHeaders) : st \in {StatusOK, 404}}
    \cup {Response(StatusTooManyRequests, NumberAsError, Limits34),
          Response(StatusTooManyRequests, EmptyBody, Negative)}

TransportErrors == {TransportError(<<"t", "/", "o">>)}

\* ------------------------------------------------------------------------
\* The typed result target and json.Decoder.Decode
\* ------------------------------------------------------------------------
NilTarget == [nil |-> TRUE, Count |-> 0, Name |-> <<>>]
Target(cnt, nm) == [nil |-> FALSE, Count |-> cnt, Name |-> nm]
Targets == {NilTarget, Target(0, <<>>)}

EOF == <<"E", "O", "F">>
TypeMismatch == <<"t", "y", "p", "e">>

\* Decode reads one JSON value from the body. An empty body gives io.EOF and
\* a syntax error gives the parser's error, both before anything is stored.
\* A member of the wrong type is skipped, the other members are stored, and an
\* UnmarshalTypeError is returned.
Decode(body, target) ==
    IF body.kind = "empty" THEN [v |-> target, err |-> JsonError(EOF)]
    ELSE IF body.kind = "malformed" THEN [v |-> target, err |-> JsonError(body.why)]
    ELSE IF body.kind = "unreadable" THEN [v |-> target, err |-> ReadError(body.why)]
    ELSE [v |-> [target EXCEPT
                   !.Count = IF body.count.t = "number" THEN body.count.n ELSE @,
                   !.Name = IF body.name.t = "string" THEN body.name.s ELSE @],
          err |-> IF body.count.t = "string" \/ body.name.t = "number"
                  THEN JsonError(TypeMismatch) ELSE NilError]

\* ------------------------------------------------------------------------
\* State
\* ------------------------------------------------------------------------
VARIABLES
    c,        \* the Client: retries, attempts, apiVersion, RateLimits
    pc,       \* position of doGetHeaders: "idle", "dispatch" or "check"
    retries,  \* the local retries of doGetHeaders
    resp,     \* the local resp: the response of the latest attempt
    err,      \* the local err: the error c.Client.Do returned on the latest attempt
    respErr,  \* the local respErr: CheckResponseError(resp)
    v,        \* the caller's result target
    ret,      \* what the latest call returned: headers (or nil) and error
    sleeps,   \* the seconds of each time.Sleep of the current call, in order
    vBefore,  \* the result target as it was when the call started
    calls,    \* number of calls started
    wire,     \* the body the transport handed over on the latest attempt
    request,  \* the *http.Request of the call: method, length, GetBody, Body
    sent,     \* the request body the first and the latest attempt sent
    op,       \* the function applied on its own: "none" or its name
    checked,  \* the response given to CheckResponseError
    first,    \* what CheckResponseError returned for it
    second,   \* what CheckResponseError returned for the same content again
    bodyRead, \* whether CheckResponseError read the body
    receiver, \* the ResponseError whose Error() is taken
    text,     \* what Error() returned
    client,   \* the credentials of the Client given to NewRequest
    req,      \* the authentication headers of the request NewRequest built
    backing   \* the caller's Errors array after Error() returned

callVars ==
    <<c, pc, retries, resp, err, respErr, v, ret, sleeps, vBefore, calls, wire, request, sent>>
unitVars == <<op, checked, first, second, bodyRead, receiver, text, client, req, backing>>
vars == <<callVars, unitVars>>

\* The transport's body of a response: whether one was received, whether it was
\* read to its end, whether Close was called on it, whether resp.Body still
\* refers to it, and the error its Read returned.
NoWire ==
    [received |-> FALSE, drained |-> FALSE, closed |-> FALSE, replaced |-> FALSE,
     readErr |-> NilError]
Received ==
    [received |-> TRUE, drained |-> FALSE, closed |-> FALSE, replaced |-> FALSE,
     readErr |-> NilError]

\* b, _ := ioutil.ReadAll(*body); *body = ioutil.NopCloser(bytes.NewBuffer(b)):
\* the new value of *body.
logBody(body) == ReadAll(body).b

\* What logBody does to the body it was given: read up to the end or the first
\* error, then dropped without Close.
logBodyWire(w, body) ==
    [w EXCEPT !.drained = ReadAll(body).err = NilError, !.replaced = TRUE,
              !.readErr = ReadAll(body).err]

logResponse(res) == [res EXCEPT !.Body = logBody(res.Body)]

\* resp.Body.Close(): reaches the transport's body only while resp.Body is it.
CloseBody(w) == IF w.replaced THEN w ELSE [w EXCEPT !.closed = TRUE]

RateLimitInfo(count, size, after) ==
    [RequestCount |-> count, BucketSize |-> size, RetryAfterSeconds |-> after]

\* Variant: the headers of the response returned along with the error.
ReturnErrorWithHeaders(e) == [headersNil |-> FALSE, headers |-> resp.Header, err |-> e]

\* return nil, err
ReturnError(e) == [headersNil |-> TRUE, headers |-> NoHeaders, err |-> e]
\* return resp.Header, nil
ReturnHeaders(h) == [headersNil |-> FALSE, headers |-> h, err |-> NilError]

\* A Client without credentials, a request without authentication headers.
Credentials(token, apiKey, password) ==
    [token |-> token, ApiKey |-> apiKey, Password |-> password]
NoAuthorization == [scheme |-> "", username |-> "", password |-> ""]
\* req.SetBasicAuth(username, password)
BasicAuth(username, password) ==
    [scheme |-> "Basic", username |-> username, password |-> password]
AuthHeaders(token, authorization) ==
    [AccessToken |-> token, Authorization |-> authorization]

\* No function applied on its own yet.
Untried ==
    /\ op = "none"
    /\ checked = NoResponse
    /\ first = NilError
    /\ second = NilError
    /\ bodyRead = FALSE
    /\ receiver = ResponseError(0, <<>>, <<>>)
    /\ text = <<>>
    /\ client = Credentials("", "", "")
    /\ req = AuthHeaders("", NoAuthorization)
    /\ backing = <<>>

\* A *bytes.Buffer: its bytes and the offset of the next read.
Buffer(bytes) == [bytes |-> bytes, off |-> 0]
\* The bytes a reader of the buffer still gets.
Unread(buf) == SubSeq(buf.bytes, buf.off + 1, Len(buf.bytes))
\* The buffer once read to its end.
Drained(buf) == [buf EXCEPT !.off = Len(buf.bytes)]

\* http.NewRequest(method, url, bytes.NewBuffer(js)): for a *bytes.Buffer the
\* length is recorded and GetBody returns a reader of a snapshot of the bytes.
HttpRequest(method, js) ==
    [Method |-> method, ContentLength |-> Len(js), GetBody |-> js, Body |-> Buffer(js)]
NoRequest == HttpRequest("", <<>>)

\* logBody on req.Body: the unread bytes are read and req.Body becomes a new
\* buffer of them.
logRequest(rq) == [rq EXCEPT !.Body = Buffer(Unread(rq.Body))]

\* What the transport can send as the body of rq: the bytes req.Body still
\* gives; when those fall short of ContentLength the round trip either fails
\* (ShortBody), or sends them as they are, or is repeated with the body from
\* GetBody.
Sendable(rq) ==
    IF Len(Unread(rq.Body)) = rq.ContentLength THEN {Unread(rq.Body)}
    ELSE {Unread(rq.Body), rq.GetBody}
ShortBody == TransportError(<<"l", "e", "n">>)
NothingSent == [first |-> <<>>, last |-> <<>>]

\* The calls made: a GET without data decoded into a resource, and a POST of
\* data whose JSON is "{}" without a resource.
Calls ==
    { [rq |-> HttpRequest("GET", <<>>), target |-> Target(0, <<>>)],
      [rq |-> HttpRequest("POST", <<"{", "}">>), target |-> NilTarget] }

\* doGetHeaders not entered yet.
Uncalled ==
    /\ pc = "idle"
    /\ retries = 0
    /\ resp = NoResponse
    /\ err = NilError
    /\ respErr = NilError
    /\ v = NilTarget
    /\ ret = ReturnError(NilError)
    /\ sleeps = <<>>
    /\ vBefore = NilTarget
    /\ calls = 0
    /\ wire = NoWire
    /\ request = NoRequest
    /\ sent = NothingSent

\* A Client as NewClient returns it, with the retry budget n, and no call made.
NewClient(n) ==
    /\ c = [retries |-> n, attempts |-> 0, apiVersion |-> defaultApiVersion,
            RateLimits |-> RateLimitInfo(0, 0, 0)]
    /\ Uncalled

\* NewClient followed by the WithRetry option.
Init == (\E n \in 0..MaxRetries : NewClient(n)) /\ Untried

\* ------------------------------------------------------------------------
\* doGetHeaders
\* ------------------------------------------------------------------------
\* Entry of doGetHeaders (through Do, CreateAndDo, Get, Post, Put, Delete)
\* with result target target.
Begin(target, rq) ==
    /\ pc = "idle"
    /\ calls < MaxCalls
    /\ calls' = calls + 1
    /\ retries' = c.retries
    /\ c' = [c EXCEPT !.attempts = 0]
    /\ v' = target
    /\ vBefore' = target
    /\ sleeps' = <<>>
    /\ resp' = NoResponse
    /\ err' = NilError
    /\ respErr' = NilError
    /\ ret' = ReturnError(NilError)
    /\ wire' = NoWire
    /\ request' = logRequest(rq)
    /\ sent' = NothingSent
    /\ pc' = "dispatch"
    /\ UNCHANGED unitVars

\* Variant: a transport error retried while the budget lasts.
DispatchFailsRetried(e) ==
    /\ pc = "dispatch"
    /\ c' = [c EXCEPT !.attempts = @ + 1]
    /\ err' = e
    /\ IF retries <= 1
       THEN ret' = ReturnError(e) /\ pc' = "idle" /\ retries' = retries
       ELSE ret' = ret /\ pc' = "dispatch" /\ retries' = retries - 1
    /\ UNCHANGED <<resp, respErr, v, sleeps, vBefore, calls, wire, request, sent>>
    /\ UNCHANGED unitVars

\* An attempt on which c.Client.Do returns the error e.
DispatchFails(e) ==
    /\ pc = "dispatch"
    /\ e = ShortBody => Len(Unread(request.Body)) # request.ContentLength
    /\ c' = [c EXCEPT !.attempts = @ + 1]
    /\ err' = e
    /\ ret' = ReturnError(e)
    /\ pc' = "idle"
    /\ UNCHANGED <<retries, resp, respErr, v, sleeps, vBefore, calls, wire, request, sent>>
    /\ UNCHANGED unitVars

\* An attempt on which c.Client.Do returns the response r.
Dispatch(r, ord) ==
    /\ pc = "dispatch"
    /\ request' = [request EXCEPT !.Body = Drained(@)]
    /\ \E body \in Sendable(request) :
           sent' = [first |-> IF c.attempts = 0 THEN body ELSE sent.first, last |-> body]
    /\ c' = [c EXCEPT !.attempts = @ + 1]
    /\ resp' = logResponse(r)
    /\ wire' = logBodyWire(Received, r.Body)
    /\ err' = NilError
    /\ respErr' = CheckResponseError(logResponse(r), ord)
    /\ pc' = "check"
    /\ UNCHANGED <<retries, v, ret, sleeps, vBefore, calls>>
    /\ UNCHANGED unitVars

\* resp.Body.Close() before a retry: the closed response and its error are
\* not read again, the next attempt overwrites them.
Discard ==
    /\ resp' = NoResponse /\ respErr' = NilError /\ wire' = CloseBody(wire)
    /\ sent' = [sent EXCEPT !.last = <<>>]

\* Variant: the retry budget compared with "< 0".
OutOfRetriesBelowZero(n) == n < 0

\* if retries <= 1
OutOfRetries(n) == n <= 1

\* Variant: 429 handled in the status switch as well.
RetryStatusWith429(status) ==
    status = StatusServiceUnavailable \/ status = StatusTooManyRequests

\* case http.StatusServiceUnavailable
RetryStatus(status) == status = StatusServiceUnavailable

\* if retries <= 1 { return nil, respErr }, and the final return nil, respErr
Fail ==
    /\ pc = "check"
    /\ respErr # NilError
    /\ \/ OutOfRetries(retries)
       \/ respErr.kind # "RateLimitError" /\ ~RetryStatus(resp.StatusCode)
    /\ ret' = ReturnError(respErr)
    /\ pc' = "idle"
    /\ wire' = CloseBody(wire)
    /\ UNCHANGED <<c, retries, resp, err, respErr, v, sleeps, vBefore, calls, request, sent>>
    /\ UNCHANGED unitVars

\* Variant: a fixed backoff of one second.
WaitOneSecond(rateLimitErr) == 1

\* wait := time.Duration(rateLimitErr.RetryAfter) * time.Second, in seconds
Wait(rateLimitErr) == rateLimitErr.RetryAfter

\* the RateLimitError branch: sleep, retries--, continue
RetryRateLimited ==
    /\ pc = "check"
    /\ respErr # NilError
    /\ ~OutOfRetries(retries)
    /\ respErr.kind = "RateLimitError"
    /\ sleeps' = Append(sleeps, Wait(respErr))
    /\ retries' = retries - 1
    /\ Discard
    /\ pc' = "dispatch"
    /\ UNCHANGED <<c, err, v, ret, vBefore, calls, request>>
    /\ UNCHANGED unitVars

\* Variant: the 503 branch backs off like the rate-limit branch.
RetryUnavailableSleeping ==
    /\ pc = "check"
    /\ respErr # NilError
    /\ ~OutOfRetries(retries)
    /\ respErr.kind # "RateLimitError"
    /\ RetryStatus(resp.StatusCode)
    /\ sleeps' = Append(sleeps, FloatToInt(ParseFloat(resp.Header.RetryAfter)))
    /\ retries' = retries - 1
    /\ Discard
    /\ pc' = "dispatch"
    /\ UNCHANGED <<c, err, v, ret, vBefore, calls, request>>
    /\ UNCHANGED unitVars

\* the 503 branch: retries--, continue
RetryUnavailable ==
    /\ pc = "check"
    /\ respErr # NilError
    /\ ~OutOfRetries(retries)
    /\ respErr.kind # "RateLimitError"
    /\ RetryStatus(resp.StatusCode)
    /\ retries' = retries - 1
    /\ Discard
    /\ pc' = "dispatch"
    /\ UNCHANGED <<c, err, v, ret, sleeps, vBefore, calls, request>>
    /\ UNCHANGED unitVars

\* Variant: the version header adopted whenever it is present.
ShouldPinAlways(version, header) == header # ""

\* if c.apiVersion == defaultApiVersion && header != ""
ShouldPin(version, header) == version = defaultApiVersion /\ header # ""

PinVersion(version, header) == IF ShouldPin(version, header) THEN header ELSE version

\* The call-limit and Retry-After headers of a response stored in RateLimits.
UpdateRateLimits(rl, h) ==
    LET s == Split(h.CallLimit, "/")
    IN  [RequestCount |-> IF Len(s) = 2 THEN Atoi(s[1]) ELSE rl.RequestCount,
         BucketSize |-> IF Len(s) = 2 THEN Atoi(s[2]) ELSE rl.BucketSize,
         RetryAfterSeconds |-> ParseFloat(h.RetryAfter)]

\* After the loop: pin the version, decode into v, store the rate limits.
Finish ==
    /\ pc = "check"
    /\ respErr = NilError
    /\ LET d == IF v.nil THEN [v |-> v, err |-> NilError] ELSE Decode(resp.Body, v)
       IN  /\ v' = d.v
           /\ IF d.err # NilError
              THEN /\ c' = [c EXCEPT !.apiVersion = PinVersion(@, resp.Header.ApiVersion)]
                   /\ ret' = ReturnError(d.err)
              ELSE /\ c' = [c EXCEPT !.apiVersion = PinVersion(@, resp.Header.ApiVersion),
                                     !.RateLimits = UpdateRateLimits(@, resp.Header)]
                   /\ ret' = ReturnHeaders(resp.Header)
    /\ wire' = CloseBody(wire)
    /\ pc' = "idle"
    /\ UNCHANGED <<retries, resp, err, respErr, sleeps, vBefore, calls, request, sent>>
    /\ UNCHANGED unitVars

Next ==
    \/ \E call \in Calls : Begin(call.target, call.rq)
    \/ \E e \in TransportErrors \cup {ShortBody} : DispatchFails(e)
    \/ \E r \in Responses : \E ord \in IterationOrders(Len(r.Body.errors.o)) : Dispatch(r, ord)
    \/ Fail
    \/ RetryRateLimited
    \/ RetryUnavailable
    \/ Finish

Spec == Init /\ [][Next]_vars

\* doGetHeaders runs to its return once called: a call in progress takes its
\* next step.
FairSpec == Spec /\ WF_vars(pc # "idle" /\ Next)

\* ------------------------------------------------------------------------
\* The functions on their own: CheckResponseError, ResponseError.Error and
\* the authentication of NewRequest, each applied to an input
\* ------------------------------------------------------------------------
TwoTopics == JObject(<<Entry(<<"o">>, JArray(<<<<"w">>, <<"x">>>>)), Entry(<<"c">>, JString(<<"z">>))>>)
NullTopic == JObject(<<Entry(<<"t">>, JNull)>>)

\* The shapes of the "errors" member.
ErrorsShapes ==
    { JNull, JString(<<"n", "o">>), JNumber(<<"4", "2">>), JBool(<<"t">>),
      JArray(<<>>), JArray(<<<<"n", "o", "t">>, <<"b", "a", "d">>>>),
      JObject(<<>>), TwoTopics, NullTopic,
      JObject(<<Entry(<<"o">>, JNumber(<<"1">>)), Entry(<<"c">>, JObject(<<>>))>>),
      JObject(<<Entry(<<"o">>, JArray(<<<<"w">>>>)), Entry(<<"t">>, JNull)>>) }

UnitBodies ==
    {EmptyBody, Malformed, NumberAsError, Unreadable, Counted}
    \cup {ErrorBody(m, e) : m \in {<<>>, <<"b", "a", "d">>}, e \in ErrorsShapes}

RetryAfters ==
    { <<>>, <<"x">>, <<"0">>, <<"2">>, <<"2", ".", "5">>, <<"0", ".", "9">>,
      <<"-", "1", ".", "5">>, <<"1", "2">>, <<"1", ".", "x">> }

UnitStatuses ==
    {199, StatusOK, 299, StatusMultipleChoices, 400, StatusNotAcceptable,
     StatusTooManyRequests, StatusServiceUnavailable}

UnitResponses ==
    {Response(st, b, NoHeaders) : st \in UnitStatuses, b \in UnitBodies}
    \cup {Response(StatusTooManyRequests, b, Headers(<<>>, ra, "")) :
              b \in {EmptyBody, BadRequest, NumberAsError, ErrorBody(<<>>, TwoTopics)},
              ra \in RetryAfters}

NotAValidTitle ==
    <<"n", "o", "t", " ", "a", " ", "v", "a", "l", "i", "d", " ", "t", "i", "t", "l", "e">>
NotAValidDescription ==
    <<"n", "o", "t", " ", "a", " ", "v", "a", "l", "i", "d", " ",
      "d", "e", "s", "c", "r", "i", "p", "t", "i", "o", "n">>

ErrorTexts == {<<>>, <<"t">>, <<"d">>, <<"d", "e">>}

RECURSIVE ListsUpTo(_, _)
ListsUpTo(elems, n) ==
    IF n = 0 THEN {<<>>}
    ELSE ListsUpTo(elems, n - 1)
         \cup {Append(l, x) : l \in {k \in ListsUpTo(elems, n - 1) : Len(k) = n - 1},
                              x \in elems}

ErrorValues ==
    {ResponseError(0, m, errs) :
         m \in {<<>>, <<"o", "h">>},
         errs \in ListsUpTo(ErrorTexts, MaxErrors)
                  \cup {<<NotAValidTitle, NotAValidDescription>>}}

AllCredentials ==
    {Credentials(t, k, p) : t \in {"", "tok"}, k \in {"", "key"}, p \in {"", "pw"}}

\* One input of one of the functions.
UnitInit ==
    /\ NewClient(0)
    /\ first = NilError /\ second = NilError /\ bodyRead = FALSE
    /\ text = <<>> /\ backing = <<>>
    /\ req = AuthHeaders("", NoAuthorization)
    /\ \/ /\ op = "to CheckResponseError"
          /\ checked \in UnitResponses
          /\ receiver = ResponseError(0, <<>>, <<>>)
          /\ client = Credentials("", "", "")
       \/ /\ op = "to Error"
          /\ checked = NoResponse
          /\ receiver \in ErrorValues
          /\ client = Credentials("", "", "")
       \/ /\ op = "to NewRequest"
          /\ checked = NoResponse
          /\ receiver = ResponseError(0, <<>>, <<>>)
          /\ client \in AllCredentials

\* Whether CheckResponseError reads r.Body.
ReadsBody(r) == ~IsSuccess(r.StatusCode)

\* CheckResponseError on the response, and once more on the same content, the
\* "errors" map iterated in the order ord1 and then ord2.
CheckTwice(ord1, ord2) ==
    /\ op = "to CheckResponseError"
    /\ first' = CheckResponseError(checked, ord1)
    /\ second' = CheckResponseError(checked, ord2)
    /\ bodyRead' = ReadsBody(checked)
    /\ op' = "CheckResponseError"
    /\ UNCHANGED <<checked, receiver, text, client, req, backing>>
    /\ UNCHANGED callVars

\* fmt.Sprint(err): ResponseError.Error() on the value.
TakeErrorString ==
    /\ op = "to Error"
    /\ text' = ErrorString(receiver).s
    /\ backing' = ErrorString(receiver).Errors
    /\ op' = "Error"
    /\ UNCHANGED <<checked, first, second, bodyRead, receiver, client, req>>
    /\ UNCHANGED callVars

\* Error() once more on the same value, whose Errors slice is the array the
\* first call left.
TakeErrorStringAgain ==
    /\ op = "Error"
    /\ text' = ErrorString([receiver EXCEPT !.Errors = backing]).s
    /\ backing' = ErrorString([receiver EXCEPT !.Errors = backing]).Errors
    /\ op' = "Error again"
    /\ UNCHANGED <<checked, first, second, bodyRead, receiver, client, req>>
    /\ UNCHANGED callVars

\* Variant: basic auth whenever a password is set.
UsesBasicAuthBesideToken(token, password) == password # ""

\* else if c.app.Password != ""
UsesBasicAuth(token, password) == token = "" /\ password # ""

\* The authentication headers NewRequest puts on the request.
NewRequest(cl) ==
    AuthHeaders(cl.token,
                IF UsesBasicAuth(cl.token, cl.Password)
                THEN BasicAuth(cl.ApiKey, cl.Password) ELSE NoAuthorization)

BuildRequest ==
    /\ op = "to NewRequest"
    /\ req' = NewRequest(client)
    /\ op' = "NewRequest"
    /\ UNCHANGED <<checked, first, second, bodyRead, receiver, text, client, backing>>
    /\ UNCHANGED callVars

UnitNext ==
    \/ \E ord1, ord2 \in IterationOrders(Len(checked.Body.errors.o)) : CheckTwice(ord1, ord2)
    \/ TakeErrorString
    \/ TakeErrorStringAgain
    \/ BuildRequest

UnitSpec == UnitInit /\ [][UnitNext]_vars

\* ------------------------------------------------------------------------
\* Properties
\* ------------------------------------------------------------------------
InCall == pc # "idle"
Returned == pc = "idle" /\ calls > 0

\* C1: a call dispatches the request at least once and at most c.retries + 1
\* times, exactly once when c.retries = 0, and every call returns.
AttemptsBounded ==
    /\ c.attempts <= c.retries + 1
    /\ (pc = "check" \/ Returned) => c.attempts >= 1
    /\ c.retries = 0 /\ Returned => c.attempts = 1
C1_BoundedAttempts == []AttemptsBounded /\ (InCall ~> Returned)
C1_Witness == Returned /\ c.retries = 3 /\ c.attempts = 3

\* C2: on a RateLimitError with retries <= 1 the call returns that error
\* without sleeping; otherwise it sleeps once for RetryAfter seconds, takes one
\* from retries and dispatches again. Retry-After "2" with budget 3: one sleep
\* of 2 seconds before the second attempt; budget 1: no sleep, error returned.
RateLimitedStep ==
    pc = "check" /\ respErr.kind = "RateLimitError" =>
        IF retries <= 1
        THEN /\ pc' = "idle" /\ ret' = ReturnError(respErr)
             /\ sleeps' = sleeps /\ c'.attempts = c.attempts
        ELSE /\ sleeps' = Append(sleeps, respErr.RetryAfter)
             /\ retries' = retries - 1
             /\ pc' = "dispatch" /\ c'.attempts = c.attempts
RedispatchStep == pc = "dispatch" => c'.attempts = c.attempts + 1
RateLimitExample ==
    /\ ( /\ pc = "check" /\ c.retries = 3 /\ c.attempts = 1
         /\ respErr.kind = "RateLimitError" /\ resp.Header.RetryAfter = <<"2">> )
       => sleeps' = <<2>> /\ pc' = "dispatch"
    /\ (pc = "check" /\ c.retries = 1 /\ respErr.kind = "RateLimitError")
       => sleeps' = <<>> /\ pc' = "idle" /\ ret'.err = respErr
C2_RateLimitRetry == [][RateLimitedStep /\ RedispatchStep /\ RateLimitExample]_vars
C2_Witness ==
    /\ pc = "check" /\ c.retries = 3 /\ c.attempts = 2 /\ sleeps = <<2>>
    /\ resp.StatusCode = StatusTooManyRequests

\* C3: on an error that is no RateLimitError on a 503 the call returns it when
\* retries <= 1; otherwise it takes one from retries and dispatches again, and
\* never sleeps.
UnavailableStep ==
    ( /\ pc = "check" /\ respErr # NilError /\ respErr.kind # "RateLimitError"
      /\ resp.StatusCode = StatusServiceUnavailable ) =>
        /\ sleeps' = sleeps /\ c'.attempts = c.attempts
        /\ IF retries <= 1
           THEN pc' = "idle" /\ ret' = ReturnError(respErr)
           ELSE retries' = retries - 1 /\ pc' = "dispatch"
C3_UnavailableRetry == [][UnavailableStep /\ RedispatchStep]_vars
C3_Witness ==
    /\ pc = "check" /\ c.attempts = 3 /\ sleeps = <<>> /\ retries = c.retries - 2
    /\ resp.StatusCode = StatusServiceUnavailable
    /\ respErr.kind = "ResponseDecodingError"

\* C4: an error that is neither a RateLimitError nor on a 503 is returned at
\* once: no sleep, no further attempt, whatever is left of the budget.
OtherErrorStep ==
    ( /\ pc = "check" /\ respErr # NilError /\ respErr.kind # "RateLimitError"
      /\ resp.StatusCode # StatusServiceUnavailable ) =>
        /\ pc' = "idle" /\ ret' = ReturnError(respErr)
        /\ sleeps' = sleeps /\ c'.attempts = c.attempts
C4_OtherErrorFinal == [][OtherErrorStep]_vars
C4_Witness ==
    /\ Returned /\ retries = 3 /\ c.attempts = 1 /\ sleeps = <<>>
    /\ ret.err.kind = "ResponseError" /\ ret.err.Status = 404

\* C5: an error of the HTTP client ends the call at once with that same
\* error, on the first and on any later attempt, whatever is left of the
\* budget: no sleep and no attempt follows it.
TransportFailureStep ==
    err' \in TransportErrors /\ err' # err =>
        /\ pc' = "idle" /\ ret' = ReturnError(err')
        /\ sleeps' = sleeps /\ c'.attempts = c.attempts + 1
AfterTransportFailure == err # NilError => pc = "idle" /\ ret = ReturnError(err)
C5_TransportErrorFinal == [][TransportFailureStep]_vars /\ []AfterTransportFailure
C5_Witness ==
    /\ Returned /\ err \in TransportErrors /\ c.attempts = 2 /\ retries = 2

\* C6: every 429 response received while retries > 1 is followed by another
\* dispatch of the request, whatever its body.
TooManyRequestsStep ==
    pc = "check" /\ resp.StatusCode = StatusTooManyRequests /\ retries > 1 =>
        pc' = "dispatch"
C6_Every429Retried == [][TooManyRequestsStep]_vars

\* A call-limit header "<used>/<limit>" made of two integers.
CallLimitParts(h) == Split(h.CallLimit, "/")
CallLimitWellFormed(h) ==
    /\ Len(CallLimitParts(h)) = 2
    /\ AtoiOk(CallLimitParts(h)[1]) /\ AtoiOk(CallLimitParts(h)[2])

\* C7: after any response, success or failure, final or retried, a well-formed
\* call-limit header sets RequestCount and BucketSize to its two integers.
CallLimitStoredStep ==
    pc = "check" /\ CallLimitWellFormed(resp.Header) =>
        /\ c'.RateLimits.RequestCount = Atoi(CallLimitParts(resp.Header)[1])
        /\ c'.RateLimits.BucketSize = Atoi(CallLimitParts(resp.Header)[2])
C7_CallLimitOnEveryResponse == [][CallLimitStoredStep]_vars

\* C8: RequestCount and BucketSize change only on a response whose call-limit
\* header is well formed; an absent header or "x/4" leaves both as they were.
CallLimitFrameStep ==
    ( \/ c'.RateLimits.RequestCount # c.RateLimits.RequestCount
      \/ c'.RateLimits.BucketSize # c.RateLimits.BucketSize ) =>
        pc = "check" /\ CallLimitWellFormed(resp.Header)
C8_CallLimitOnlyWhenWellFormed == [][CallLimitFrameStep]_vars

\* C9: apiVersion changes only while it is the "stable" sentinel, on a
\* successful response with a non-empty version header, to that header's
\* value; once pinned, no response changes it.
PinStep ==
    /\ c'.apiVersion # c.apiVersion =>
           /\ c.apiVersion = defaultApiVersion
           /\ pc = "check" /\ respErr = NilError
           /\ resp.StatusCode >= StatusOK /\ resp.StatusCode < StatusMultipleChoices
           /\ resp.Header.ApiVersion # ""
           /\ c'.apiVersion = resp.Header.ApiVersion
    /\ c.apiVersion # defaultApiVersion => c'.apiVersion = c.apiVersion
C9_VersionPinnedOnce == [][PinStep]_vars
C9_Witness ==
    /\ Returned /\ calls = 2 /\ ret.err = NilError
    /\ c.apiVersion = "2023-01" /\ resp.Header.ApiVersion = "2023-04"

\* C10: a call that returns an error returns nil headers, and when the error
\* arose before decoding (transport error, final response error) the result
\* target is as it was before the call.
BeforeDecoding(e) ==
    e.kind \in {"transport", "ResponseError", "RateLimitError", "ResponseDecodingError"}
C10_NoPartialResults ==
    Returned /\ ret.err # NilError =>
        /\ ret.headersNil
        /\ BeforeDecoding(ret.err) => v = vBefore
C10_Witness ==
    /\ Returned /\ ret.err.kind = "RateLimitError" /\ c.attempts = 3
    /\ ~v.nil /\ resp.Header = Limits34

\* C11: whenever a call has returned, and whenever a retried attempt is about
\* to be followed by the next dispatch, the body the transport handed over on
\* the latest attempt has been read to its end and closed.
C11_BodiesDrainedAndClosed ==
    ((Returned \/ pc = "dispatch") /\ wire.received) => (wire.drained /\ wire.closed)

\* C12: CheckResponseError on a non-2xx response whose body cannot be read
\* returns the read error, and a call that has returned after receiving a
\* response whose body could not be read has returned that read error.
C12_ReadErrorReturned ==
    /\ \A st \in {404, StatusTooManyRequests, StatusServiceUnavailable} :
           CheckResponseError(Response(st, Unreadable, NoHeaders), <<>>)
               = ReadError(Unreadable.why)
    /\ (Returned /\ wire.readErr # NilError) => ret.err = wire.readErr

Checked == op = "CheckResponseError"
SuccessStatus == StatusOK <= checked.StatusCode /\ checked.StatusCode < StatusMultipleChoices

\* C13: CheckResponseError applied twice to the same response content gives
\* equal errors: kind, status, message and the sub-errors in the same order.
C13_NormalizerIdempotent == Checked => first = second

\* C14: on a response with a status in [200,300) CheckResponseError returns
\* nil whatever the body is, and does not read the body.
C14_SuccessIsNil == (Checked /\ SuccessStatus) => (first = NilError /\ ~bodyRead)
C14_Witness ==
    /\ Checked /\ checked.StatusCode = 299 /\ checked.Body.errors = TwoTopics
    /\ first = NilError /\ ~bodyRead

\* n is the float64 f (in tenths) cut to a whole number, toward zero.
Truncated(f, n) ==
    IF f >= 0 THEN 10 * n <= f /\ f < 10 * n + 10
    ELSE 10 * n - 10 < f /\ f <= 10 * n

\* The error of a 429 response whose body is of one of the kinds: a
\* RateLimitError with the status, the message and sub-errors of the body, and
\* RetryAfter the Retry-After header as a number cut to whole seconds, 0 when
\* the header is absent or no number.
RateLimitErrorStep(kinds) ==
    ( /\ pc = "dispatch" /\ pc' = "check"
      /\ resp'.StatusCode = StatusTooManyRequests /\ resp'.Body.kind \in kinds ) =>
        /\ respErr'.kind = "RateLimitError"
        /\ respErr'.Status = StatusTooManyRequests
        /\ resp'.Body.errors = JNull =>
               respErr'.Message = resp'.Body.error /\ respErr'.Errors = <<>>
        /\ IF ParseFloatOk(resp'.Header.RetryAfter)
           THEN Truncated(ParseFloat(resp'.Header.RetryAfter), respErr'.RetryAfter)
           ELSE respErr'.RetryAfter = 0
        /\ resp'.Header.RetryAfter = <<"2", ".", "5">> => respErr'.RetryAfter = 2
        /\ resp'.Header.RetryAfter = <<"-", "0", ".", "5">> => respErr'.RetryAfter = 0
        /\ resp'.Header.RetryAfter \in {<<>>, <<"x">>} => respErr'.RetryAfter = 0
\* The sleep before the retry of a rate-limited attempt.
RateLimitSleepStep ==
    (pc = "check" /\ respErr.kind = "RateLimitError" /\ pc' = "dispatch") =>
        sleeps' = Append(sleeps, respErr.RetryAfter)

DecodingErrorExactlyOn(kinds) ==
    /\ first.kind = "ResponseDecodingError" <=> checked.Body.kind \in kinds
    /\ first.kind = "ResponseDecodingError" =>
           /\ first.Body = checked.Body.raw /\ first.Body # <<>>
           /\ first.Message = checked.Body.why
           /\ first.Status = checked.StatusCode
\* What it returned for an empty body: a ResponseError, or a RateLimitError on
\* 429, with the status and the message msg.
EmptyBodyGives(msg) ==
    checked.Body = EmptyBody =>
        /\ first.kind = (IF checked.StatusCode = StatusTooManyRequests
                         THEN "RateLimitError" ELSE "ResponseError")
        /\ first.Status = checked.StatusCode
        /\ first.Message = msg

\* C16 as stated: for a non-2xx response a ResponseDecodingError is returned
\* exactly when the body is non-empty and not valid JSON; an empty body gives
\* a ResponseError (RateLimitError on 429) with an empty message.
C16_DecodingErrorOnInvalidJson ==
    (Checked /\ ~SuccessStatus) =>
        (DecodingErrorExactlyOn({"malformed"}) /\ EmptyBodyGives(<<>>))

\* C16, amended: a ResponseDecodingError is returned exactly when the body is
\* non-empty and json.Unmarshal into the error structure fails, be it invalid
\* JSON or valid JSON of another shape; an empty body gives a ResponseError
\* (RateLimitError on 429) whose message is empty, except on 406 where it is
\* "Not Acceptable".
C16_DecodingErrorOnUnmarshalFailure ==
    (Checked /\ ~SuccessStatus) =>
        /\ DecodingErrorExactlyOn({"malformed", "unfit"})
        /\ EmptyBodyGives(IF checked.StatusCode = StatusNotAcceptable
                          THEN StatusTextNotAcceptable ELSE <<>>)
C16_Witness ==
    /\ Checked /\ checked.StatusCode = 400 /\ checked.Body = NumberAsError
    /\ first = ResponseDecodingError(NumberAsError.raw, NumberAsError.why, 400)

TookString == op = "Error"
\* The caller's sub-errors after the call: those of before, in increasing
\* order.
IsSorted(strs) ==
    \A i, j \in 1..Len(strs) : i < j => ~StringLess(strs[j], strs[i])
IsPermutation(a, b) ==
    /\ Len(a) = Len(b)
    /\ \E f \in IterationOrders(Len(a)) : \A i \in 1..Len(a) : b[i] = a[f[i]]
SortedSubErrors == IsSorted(backing) /\ IsPermutation(receiver.Errors, backing)
TitleExample ==
    receiver = ResponseError(0, <<>>, <<NotAValidTitle, NotAValidDescription>>) =>
        text = NotAValidDescription \o CommaSpace \o NotAValidTitle

\* C17 as stated: Error() returns the message when it is non-empty; else,
\* when the sub-error list is non-empty, the sub-errors sorted and joined with
\* ", "; else "Unknown Error".
C17_ErrorStringByListLength ==
    TookString =>
        /\ TitleExample
        /\ IF receiver.Message # <<>> THEN text = receiver.Message
           ELSE IF receiver.Errors # <<>>
           THEN SortedSubErrors /\ text = Join(backing, CommaSpace)
           ELSE text = UnknownError

\* C17, amended: Error() returns the message when it is non-empty; else the
\* sub-errors sorted and joined with ", " when that string is non-empty; else
\* "Unknown Error" (also for a list of empty strings only).
C17_ErrorStringByJoinedText ==
    TookString =>
        /\ TitleExample
        /\ IF receiver.Message # <<>> THEN text = receiver.Message
           ELSE /\ SortedSubErrors
                /\ IF Join(backing, CommaSpace) # <<>>
                   THEN text = Join(backing, CommaSpace)
                   ELSE text = UnknownError
C17_Witness ==
    /\ TookString /\ receiver.Message = <<>> /\ receiver.Errors = <<<<>>>>
    /\ text = UnknownError

Built == op = "NewRequest"
TokenOnly == req = AuthHeaders(client.token, NoAuthorization)
BasicOnly == req = AuthHeaders("", BasicAuth(client.ApiKey, client.Password))
NoAuth == req = AuthHeaders("", NoAuthorization)
AtMostOneMechanism == req.AccessToken = "" \/ req.Authorization = NoAuthorization

\* C18 as stated: at most one mechanism; with a token, the token header and no
\* basic auth; without a token and with an API key and a password, basic auth
\* with the pair and no token header; otherwise neither.
C18_AuthByPair ==
    Built =>
        /\ AtMostOneMechanism
        /\ IF client.token # "" THEN TokenOnly
           ELSE IF client.ApiKey # "" /\ client.Password # "" THEN BasicOnly
           ELSE NoAuth

\* C18, amended: at most one mechanism; with a token, the token header and no
\* basic auth; without a token and with a password (an API key or none),
\* basic auth with the API key and the password and no token header;
\* otherwise neither.
C18_AuthByPassword ==
    Built =>
        /\ AtMostOneMechanism
        /\ IF client.token # "" THEN TokenOnly
           ELSE IF client.Password # "" THEN BasicOnly
           ELSE NoAuth
C18_Witness ==
    /\ Built /\ client = Credentials("tok", "key", "pw")
    /\ req = AuthHeaders("tok", NoAuthorization)

\* The sub-errors the entries of an "errors" object stand for, entry by entry.
TopicsOf(e) ==
    IF e.v.t = "array" THEN [i \in 1..Len(e.v.a) |-> e.k \o ColonSpace \o e.v.a[i]]
    ELSE IF e.v.t = "string" THEN <<e.k \o ColonSpace \o e.v.s>>
    ELSE <<>>
RECURSIVE AllTopics(_)
AllTopics(entries) ==
    IF entries = <<>> THEN <<>> ELSE TopicsOf(Head(entries)) \o AllTopics(Tail(entries))

\* C19: for a non-2xx body whose "errors" is an object, the sub-errors are
\* exactly one "<key>: <element>" per element of an array-valued key and one
\* "<key>: <value>" per string-valued key; without an "error" message the
\* message is the first sub-error, with one it is that message.
C19_ObjectFlattened ==
    ( /\ Checked /\ ~SuccessStatus
      /\ checked.Body.kind = "json" /\ checked.Body.errors.t = "object" ) =>
        /\ first.kind \in {"ResponseError", "RateLimitError"}
        /\ IsPermutation(AllTopics(checked.Body.errors.o), first.Errors)
        /\ (checked.Body.error = <<>> /\ first.Errors # <<>>) =>
               first.Message = first.Errors[1]
        /\ checked.Body.error # <<>> => first.Message = checked.Body.error

\* C20: CheckResponseError returns for every response and never aborts; for a
\* non-2xx response with a JSON body, whatever the shape of "errors", it
\* returns a non-nil error with the response status.
C20_AlwaysReturns ==
    Checked =>
        /\ first.kind # "panic"
        /\ (~SuccessStatus /\ checked.Body.kind = "json") =>
               (first # NilError /\ first.Status = checked.StatusCode)

\* C21: every attempt after the first dispatches the request of the first
\* attempt: the same method and the same full request body.
SameRequestStep ==
    (pc = "dispatch" /\ pc' = "check" /\ c.attempts >= 1) =>
        /\ request'.Method = request.Method
        /\ sent'.first = sent.first
        /\ sent'.last = sent.first
C21_SameRequestOnRetry == [][SameRequestStep]_vars

\* C22: a call that returns an error leaves apiVersion and RateLimits as they
\* were before the call: no step inside a call changes them, and the step on
\* which the call returns changes them only when it returns no error.
SameClientState == c'.apiVersion = c.apiVersion /\ c'.RateLimits = c.RateLimits
ErrorFrameStep ==
    /\ pc' # "idle" => SameClientState
    /\ (pc # "idle" /\ pc' = "idle" /\ ret'.err # NilError) => SameClientState
C22_ErrorLeavesClientState == [][ErrorFrameStep]_vars

\* C23: Error() is a pure read: a call leaves Status, Message and the caller's
\* sub-error list, in its order, as they were, and a repeated call returns
\* the same string.
PureReadStep ==
    /\ receiver' = receiver
    /\ (op = "to Error" /\ op' = "Error") => backing' = receiver.Errors
    /\ (op = "Error" /\ op' = "Error again") => (backing' = backing /\ text' = text)
C23_ErrorIsPureRead == [][PureReadStep]_vars

====
